---- MODULE Spec2Model ----
(***************************************************************************)
(* Model of vtblmap<T&> (vtblmap3.hpp): a direct-mapped cache in front of  *)
(* an std::unordered_map from vtbl pointers to stored values, with the     *)
(* rearrangement of the cache done by update().                            *)
(*                                                                         *)
(* Identities are natural numbers below 2^31.  The table is modelled       *)
(* as a map from keys to node addresses plus a memory mem from addresses   *)
(* to stored values: std::unordered_map allocates one node per element     *)
(* and never moves it ([unord.req] p13, quoted above get()).               *)
(***************************************************************************)
EXTENDS Integers, FiniteSets, Sequences, TLC

(* ---- program constants ---- *)
min_log_size == 3
max_log_size == 16
min_expected_size == 2 ^ min_log_size
VTBL_IRRELEVANT_BITS == 4
VTBL_DEFAULT_CACHE_BITS == 7
\* the builds of the header: VTBL_DEFAULT_CACHE_BITS is defined only if the build has not
\* defined it (#if !defined), and XTL_ASSERT is active only in a build that defines _DEBUG
DefaultBuild == [cache_bits |-> VTBL_DEFAULT_CACHE_BITS, debug |-> FALSE]
\* a build with -DVTBL_DEFAULT_CACHE_BITS=1 -D_DEBUG: local_cache has two slots
SmallCacheBits == 1
DebugBuilds == {[cache_bits |-> SmallCacheBits, debug |-> TRUE],
                [cache_bits |-> VTBL_DEFAULT_CACHE_BITS, debug |-> TRUE]}

(* ---- bounds of the model ---- *)
\* the caller issues MaxCalls calls of get at most
MaxCalls == 6
\* the caller writes the values 1..MaxValue, each once, through the references it holds
MaxValue == 1
\* a caller that follows a scenario calls get MaxRepeats times more when it has ended
MaxRepeats == 1

\* identities (vtbl addresses) a call site can see: 0x1000 0x1002 0x1010 0x1020
Ids == {4096, 4098, 4112, 4128}
\* expected_size hints given to the constructor
ExpectedSizes == {2, 8}

\* call sequences of a caller that constructs the map with the hint ScenarioSize:
\* 0x1000 0x1002 0x1044 0x1040 0x1080 0x1086 0x1800 0x1840 (update runs in the 2nd
\* and in the 8th call) and 0x1020 0x1080 0x1086 (update runs in the 3rd call)
LongScenario == <<4096, 4098, 4164, 4160, 4224, 4230, 6144, 6208>>
ShortScenario == <<4128, 4224, 4230>>
Scenarios == {LongScenario, ShortScenario}
ScenarioSize == 16
ScenarioIds == UNION {{s[q] : q \in 1..Len(s)} : s \in Scenarios}
\* identities and hints of a caller that ends the life of the map: 0x1000 0x1010 0x1020
\* 0x1040 need three bits of index at the shift 4
LifeIds == {4096, 4112, 4128, 4160}
LifeSizes == {2, 4}
\* every identity a call site of the model can see
AllIds == Ids \cup ScenarioIds \cup LifeIds
\* T() of the stored value
DefaultT == 0
Values == 0..MaxValue
\* the null pointer left in a slot by memset
NULL == 0

VARIABLES
  expected_size,             \* the argument the constructor was called with
  cache_mask,                \* size_t cache_mask
  cache,                     \* cache_entry cache[cache_mask+1]: slot -> [vtbl, ptr]
  optimal_shift,             \* size_t optimal_shift
  table,                     \* vtbl_to_t_map: key -> address of the node's stored_type
  mem,                       \* address -> stored_type [value, hits]
  last_table_size,           \* size_t last_table_size
  collisions_before_update,  \* int collisions_before_update
  pc,                        \* "idle" between calls, "search" inside update's loops
  lp,                        \* locals of the running update()
  refs,                      \* history: identity -> references get returned for it
  expect,                    \* history: identity -> value last written through a reference
  calls,                     \* history: identity -> number of get calls that returned
  first_val,                 \* history: identity -> value read at the return of its first get
  made_by,                   \* history: identity -> the path of get that created its entry
  last,                      \* history: the identity and the path of the last get that returned,
                             \* or the identity last written to and "write"
  build,                     \* the macros of the build: [cache_bits, debug]
  heap,                      \* the cache arrays: [cache, news, deleted]; cache is what the
                             \* member cache points to, LocalCache or the number of the heap
                             \* array; news is the number of new cache_entry[] done so far;
                             \* deleted is the sequence of the operands of delete[]
  tolerated                  \* history: the gets since update was last entered (or since the
                             \* construction) that found their slot held by another identity
                             \* (any), and those of them that lowered the counter (counted)

vars == <<expected_size, cache_mask, cache, optimal_shift, table, mem, last_table_size,
          collisions_before_update, pc, lp, refs, expect, calls, first_val, made_by, last,
          tolerated, build, heap>>


(* ---- bit operations on naturals ---- *)
RECURSIVE BitAnd(_, _)
BitAnd(a, b) ==
  IF a = 0 \/ b = 0 THEN 0
  ELSE (a % 2) * (b % 2) + 2 * BitAnd(a \div 2, b \div 2)

RECURSIVE BitOr(_, _)
BitOr(a, b) ==
  IF a = 0 THEN b
  ELSE IF b = 0 THEN a
  ELSE (IF a % 2 = 1 \/ b % 2 = 1 THEN 1 ELSE 0) + 2 * BitOr(a \div 2, b \div 2)

RECURSIVE BitXor(_, _)
BitXor(a, b) ==
  IF a = 0 THEN b
  ELSE IF b = 0 THEN a
  ELSE (((a % 2) + (b % 2)) % 2) + 2 * BitXor(a \div 2, b \div 2)

\* v >> s, for v below 2^31
ShiftRight(v, s) == IF s >= 31 THEN 0 ELSE v \div (2 ^ s)

\* conversion to bit_offset_t (unsigned char)
ToBitOffset(x) == x % 256

(* ---- ptrtools.hpp ---- *)
\* number of bits required to represent v
RECURSIVE req_bits(_)
req_bits(v) == IF v = 0 THEN 0 ELSE 1 + req_bits(v \div 2)

\* number of zero bits below the lowest set bit of v (v # 0)
RECURSIVE trailing_zeros(_)
trailing_zeros(v) == IF v % 2 = 1 THEN 0 ELSE 1 + trailing_zeros(v \div 2)

(* ---- the table (std::unordered_map<intptr_t, stored_type>) ---- *)
Keys == DOMAIN table
TableSize == Cardinality(Keys)

\* the address of the node the map allocates for key v; a node never moves
NodeAddr(v) == 1 + Cardinality({u \in AllIds : u < v})

\* stored_type(): value(), hits(0)
DefaultStored == [value |-> DefaultT, hits |-> 0]

\* TableInsert into a table that gives up one of its entries for the new one
TableInsert_Evict(t, vtbl) ==
  LET kept == IF DOMAIN t = {} THEN {} ELSE (DOMAIN t) \ {CHOOSE u \in DOMAIN t : TRUE}
  IN [k \in kept \cup {vtbl} |-> IF k \in kept THEN t[k] ELSE NodeAddr(k)]

\* table.insert(value_type(vtbl, stored_type())) and table[vtbl] for an absent key
TableInsert(t, vtbl) == [k \in (DOMAIN t) \cup {vtbl} |-> IF k \in DOMAIN t THEN t[k] ELSE NodeAddr(k)]

\* MemInsert by a container that constructs every element anew when it grows
MemInsert_Reinit(m, vtbl) == [a \in (DOMAIN m) \cup {NodeAddr(vtbl)} |-> DefaultStored]

\* the memory after the node of vtbl has been allocated and default-constructed
MemInsert(m, vtbl) ==
  [a \in (DOMAIN m) \cup {NodeAddr(vtbl)} |-> IF a \in DOMAIN m THEN m[a] ELSE DefaultStored]

\* HitsIncr that stores a new stored_type with the incremented counter
HitsIncr_Clobber(m, ptr) == [m EXCEPT ![ptr] = [value |-> DefaultT, hits |-> @.hits + 1]]

\* ++ptr->hits
HitsIncr(m, ptr) == [m EXCEPT ![ptr].hits = @ + 1]

\* the orders in which an iteration from table.begin() to table.end() may visit keys
RECURSIVE IterationOrders(_)
IterationOrders(keys) ==
  IF keys = {} THEN {<<>>}
  ELSE UNION {{Append(o, v) : o \in IterationOrders(keys \ {v})} : v \in keys}

(* ---- the cache ---- *)
\* (vtbl >> shift) & mask
SlotOf(vtbl, shift, mask) == BitAnd(ShiftRight(vtbl, shift), mask)

EmptyEntry == [vtbl |-> 0, ptr |-> NULL]

\* std::memset(cache, 0, n * sizeof(cache_entry))
EmptyCache(n) == [s \in 0..(n - 1) |-> EmptyEntry]

(* ---- get_stats_for ---- *)
\* for (p = table.begin(); p != table.end(); ++p) histogram[(p->first >> offset) & cache_mask]++
\* (the counts do not depend on the order of the iteration)
RECURSIVE HistogramLoop(_, _, _, _)
HistogramLoop(h, keys, mask, offset) ==
  IF keys = {} THEN h
  ELSE LET v == CHOOSE u \in keys : TRUE
       IN HistogramLoop([h EXCEPT ![SlotOf(v, offset, mask)] = @ + 1], keys \ {v}, mask, offset)

\* vtbl_count_t histogram[cache_size], zeroed, after the loop over the table
Histogram(keys, log_size, offset) ==
  HistogramLoop([s \in 0..(2 ^ log_size - 1) |-> 0], keys, 2 ^ log_size - 1, offset)

\* The loop over the buckets j .. cache_size-1 of the histogram h, one operator
\* for each of the three results.  The doubles are kept exactly: with
\* total = table.size(),
\*   entropy  = log2(total) - log2(EntropyLoop) / total, EntropyLoop the product of h[j]^h[j],
\*   conflict = ConflictLoop / total.
\* if (histogram[j]) ++entries
RECURSIVE EntriesLoop(_, _, _)
EntriesLoop(h, j, cache_size) ==
  IF j >= cache_size THEN 0
  ELSE (IF h[j] # 0 THEN 1 ELSE 0) + EntriesLoop(h, j + 1, cache_size)

\* if (histogram[j]) { pi = histogram[j]/total; entropy -= pi*std::log(pi)/ln2; }
RECURSIVE EntropyLoop(_, _, _)
EntropyLoop(h, j, cache_size) ==
  IF j >= cache_size THEN 1
  ELSE (IF h[j] # 0 THEN h[j] ^ h[j] ELSE 1) * EntropyLoop(h, j + 1, cache_size)

\* ConflictLoop that adds histogram[j]/total for every used bucket
RECURSIVE ConflictLoop_Occupied(_, _, _)
ConflictLoop_Occupied(h, j, cache_size) ==
  IF j >= cache_size THEN 0
  ELSE h[j] + ConflictLoop_Occupied(h, j + 1, cache_size)

\* if (histogram[j] > 1) conflict += (histogram[j]-1)/total
RECURSIVE ConflictLoop(_, _, _)
ConflictLoop(h, j, cache_size) ==
  IF j >= cache_size THEN 0
  ELSE (IF h[j] > 1 THEN h[j] - 1 ELSE 0) + ConflictLoop(h, j + 1, cache_size)

\* entries (returned), entropy and conflict, computed from one histogram
get_stats_for(keys, log_size, offset) ==
  CHOOSE st \in {[entries  |-> EntriesLoop(h, 0, 2 ^ log_size),
                  entropy  |-> EntropyLoop(h, 0, 2 ^ log_size),
                  conflict |-> ConflictLoop(h, 0, 2 ^ log_size)] :
                   h \in {Histogram(keys, log_size, offset)}} : TRUE

\* the double 0.0 as an entropy of a table of total entries
ZeroEntropy(total) == total ^ total

\* EntropyGreater with the comparison turned around: e < e_max
EntropyGreater_Reversed(e, e_max) == e > e_max

\* e > e_max on entropies of the same table
EntropyGreater(e, e_max) == e < e_max

\* c > 0.0
ConflictPositive(c) == c > 0

Min(a, b) == IF a < b THEN a ELSE b
Max(a, b) == IF a > b THEN a ELSE b

(* ---- construction ---- *)
\* locals of update() while no update is running
NoLocals == [vtbl |-> 0, result |-> NULL, k |-> 0, m |-> 0, z |-> 0, l1 |-> 0, l2 |-> 0,
             i |-> 0, j |-> 0, e_max |-> 0, no |-> 0, zo |-> 0, seen |-> {}]

\* cache_mask((1<<std::min(max_log_size,bit_offset_t(req_bits(expected_size-1))))-1)
InitialMask(hint) == 2 ^ Min(max_log_size, ToBitOffset(req_bits(hint - 1))) - 1

\* enum { local_cache_bits = VTBL_DEFAULT_CACHE_BITS, local_cache_size = 1 << local_cache_bits }
local_cache_size == 2 ^ build.cache_bits

\* the member array local_cache, as a value of the member cache
LocalCache == 0
\* no new[] and no delete[] has been done
NoArrays == [cache |-> LocalCache, news |-> 0, deleted |-> <<>>]

\* Allocated with the array taken from the heap whatever its size
Allocated_Always(h, mask) == [h EXCEPT !.cache = h.news + 1, !.news = h.news + 1]

\* cache = cache_mask < local_cache_size ? local_cache : new cache_entry[cache_mask+1]
Allocated(h, mask) ==
  IF mask < local_cache_size
  THEN [h EXCEPT !.cache = LocalCache]
  ELSE [h EXCEPT !.cache = h.news + 1, !.news = h.news + 1]

\* Released without the delete[]
Released_Never(h, mask) == h

\* if (cache_mask > local_cache_size) delete[] cache;
Released(h, mask) ==
  IF mask > local_cache_size THEN [h EXCEPT !.deleted = Append(@, h.cache)] ELSE h

\* the state the constructor leaves in the build b when called with the hint
ConstructedIn(b, hint) ==
  /\ build = b
  /\ heap = Allocated(NoArrays, InitialMask(hint))
  /\ expected_size = hint
  /\ cache_mask = InitialMask(expected_size)
  /\ cache = EmptyCache(InitialMask(expected_size) + 1)
  /\ optimal_shift = VTBL_IRRELEVANT_BITS
  /\ table = <<>>
  /\ mem = <<>>
  /\ last_table_size = 0
  /\ collisions_before_update = 1
  /\ pc = "idle"
  /\ lp = NoLocals
  /\ refs = [id \in AllIds |-> {}]
  /\ expect = [id \in AllIds |-> DefaultT]
  /\ calls = [id \in AllIds |-> 0]
  /\ first_val = [id \in AllIds |-> DefaultT]
  /\ made_by = [id \in AllIds |-> "none"]
  /\ last = [id |-> 0, path |-> "none"]
  /\ tolerated = [any |-> 0, counted |-> 0]

\* the state the constructor leaves in the default build
ConstructedWith(hint) == ConstructedIn(DefaultBuild, hint)

Constructed == \E hint \in ExpectedSizes : ConstructedWith(hint)

Init == Constructed

(* ---- get ---- *)
\* CacheIndex without the shift: cache[vtbl & cache_mask]
CacheIndex_Unshifted(vtbl) == SlotOf(vtbl, 0, cache_mask)

\* cache_entry& ce = cache[(vtbl>>optimal_shift) & cache_mask]
CacheIndex(vtbl) == SlotOf(vtbl, optimal_shift, cache_mask)

\* the calls of get that have returned
RECURSIVE CallsOf(_)
CallsOf(ids) ==
  IF ids = {} THEN 0
  ELSE CHOOSE n \in {calls[id] + CallsOf(ids \ {id}) : id \in {CHOOSE x \in ids : TRUE}} : TRUE

\* get(id) can be entered: not inside another call, and XTL_ASSERT(vtbl)
Callable(id) ==
  /\ pc = "idle"
  /\ id # 0

\* what the history records when get(id) returns the reference ret
Returned(id, path, ret, new, m) ==
  /\ refs' = [refs EXCEPT ![id] = @ \cup {ret}]
  /\ calls' = [calls EXCEPT ![id] = @ + 1]
  /\ first_val' = IF calls[id] = 0 THEN [first_val EXCEPT ![id] = m[ret].value] ELSE first_val
  /\ made_by' = IF new THEN [made_by EXCEPT ![id] = path] ELSE made_by
  /\ last' = [id |-> id, path |-> path]

\* FoundEntry with the assignment to ce.ptr left out when the slot is occupied
FoundEntry_KeepPtr(vtbl, q, ce) == [vtbl |-> vtbl, ptr |-> IF ce.ptr = NULL THEN q ELSE ce.ptr]

\* ce.ptr = &q->second; ... ce.vtbl = vtbl
FoundEntry(vtbl, q, ce) == [vtbl |-> vtbl, ptr |-> q]

\* InsertedEntry with the assignment to ce.ptr left out when the slot is occupied
InsertedEntry_KeepPtr(vtbl, node, ce) ==
  [vtbl |-> vtbl, ptr |-> IF ce.ptr = NULL THEN node ELSE ce.ptr]

\* ce.ptr = &table.insert(...).first->second; ... ce.vtbl = vtbl
InsertedEntry(vtbl, node, ce) == [vtbl |-> vtbl, ptr |-> node]

\* ce.vtbl && table.size() != last_table_size: the operands before --collisions_before_update
CountsCollision(ce, size, last_size) == ce.vtbl # 0 /\ size # last_size

\* Rearranges without the test of the table size: ce.vtbl && !--collisions_before_update
Rearranges_AnySize(ce, size, last_size, counter) == ce.vtbl # 0 /\ counter - 1 = 0

\* Rearranges that never holds
Rearranges_Never(ce, size, last_size, counter) == FALSE

\* ce.vtbl && table.size() != last_table_size && !--collisions_before_update
Rearranges(ce, size, last_size, counter) ==
  CountsCollision(ce, size, last_size) /\ counter - 1 = 0

\* the collisions tolerated so far, after a get of an identity other than ce.vtbl
\* that found the entry ce in its slot and did not enter update; counted tells
\* whether the get lowered collisions_before_update
Tolerating(ce, counted) ==
  [any     |-> tolerated.any + (IF ce.vtbl # 0 THEN 1 ELSE 0),
   counted |-> tolerated.counted + (IF counted THEN 1 ELSE 0)]

\* GetHit with the collision counted before ce.vtbl is compared with vtbl
GetHit_Counting(id) ==
  LET ce == cache[CacheIndex(id)]
  IN /\ Callable(id)
     /\ ce.vtbl = id
     /\ collisions_before_update' =
          IF CountsCollision(ce, TableSize, last_table_size)
          THEN collisions_before_update - 1 ELSE collisions_before_update
     /\ mem' = HitsIncr(mem, ce.ptr)
     /\ Returned(id, "hit", ce.ptr, FALSE, mem')
     /\ UNCHANGED <<cache_mask, cache, optimal_shift, table, last_table_size,
                    pc, lp, expect, expected_size, build, heap, tolerated>>

\* ce.vtbl == vtbl: return *ce.ptr
GetHit(id) ==
  LET ce == cache[CacheIndex(id)]
  IN /\ Callable(id)
     /\ ce.vtbl = id
     /\ mem' = HitsIncr(mem, ce.ptr)
     /\ Returned(id, "hit", ce.ptr, FALSE, mem')
     /\ UNCHANGED <<cache_mask, cache, optimal_shift, table, last_table_size,
                    collisions_before_update, pc, lp, expect, expected_size, build, heap, tolerated>>

\* GetFound with the collision counted before the table is searched, as in the
\* variant commented out at lines 456-460
GetFound_Counting(id) ==
  LET i  == CacheIndex(id)
      ce == FoundEntry(id, table[id], cache[i])
  IN /\ Callable(id)
     /\ cache[i].vtbl # id
     /\ id \in Keys
     /\ collisions_before_update' =
          IF CountsCollision(cache[i], TableSize, last_table_size)
          THEN collisions_before_update - 1 ELSE collisions_before_update
     /\ tolerated' = Tolerating(cache[i], FALSE)
     /\ cache' = [cache EXCEPT ![i] = ce]
     /\ mem' = HitsIncr(mem, ce.ptr)
     /\ Returned(id, "found", ce.ptr, FALSE, mem')
     /\ UNCHANGED <<cache_mask, optimal_shift, table, last_table_size, pc, lp, expect, expected_size, build, heap>>

\* ce.vtbl != vtbl and table.find(vtbl) != table.end()
GetFound(id) ==
  LET i  == CacheIndex(id)
      ce == FoundEntry(id, table[id], cache[i])
  IN /\ Callable(id)
     /\ cache[i].vtbl # id
     /\ id \in Keys
     /\ tolerated' = Tolerating(cache[i], FALSE)
     /\ cache' = [cache EXCEPT ![i] = ce]
     /\ mem' = HitsIncr(mem, ce.ptr)
     /\ Returned(id, "found", ce.ptr, FALSE, mem')
     /\ UNCHANGED <<cache_mask, optimal_shift, table, last_table_size,
                    collisions_before_update, pc, lp, expect, expected_size, build, heap>>

\* ce.vtbl != vtbl, vtbl is not in the table and the condition of line 432 is false
GetInsert(id) ==
  LET i  == CacheIndex(id)
      ce == InsertedEntry(id, TableInsert(table, id)[id], cache[i])
  IN /\ Callable(id)
     /\ cache[i].vtbl # id
     /\ id \notin Keys
     /\ ~Rearranges(cache[i], TableSize, last_table_size, collisions_before_update)
     /\ collisions_before_update' =
          IF CountsCollision(cache[i], TableSize, last_table_size)
          THEN collisions_before_update - 1 ELSE collisions_before_update
     /\ table' = TableInsert(table, id)
     /\ tolerated' = Tolerating(cache[i], CountsCollision(cache[i], TableSize, last_table_size))
     /\ cache' = [cache EXCEPT ![i] = ce]
     /\ mem' = HitsIncr(MemInsert(mem, id), ce.ptr)
     /\ Returned(id, "insert", ce.ptr, TRUE, mem')
     /\ UNCHANGED <<cache_mask, optimal_shift, last_table_size, pc, lp, expect, expected_size, build, heap>>

(* ---- update ---- *)
\* DiffLoop with diff = prev ^ p->first in place of diff |= prev ^ p->first
RECURSIVE DiffLoop_Last(_, _, _, _)
DiffLoop_Last(order, p, prev, diff) ==
  IF p > Len(order) THEN diff
  ELSE DiffLoop_Last(order, p + 1, order[p], BitXor(prev, order[p]))

\* for (p = table.begin(); p != table.end(); ++p) { diff |= prev ^ p->first; prev = p->first; }
RECURSIVE DiffLoop(_, _, _, _)
DiffLoop(order, p, prev, diff) ==
  IF p > Len(order) THEN diff
  ELSE DiffLoop(order, p + 1, order[p], BitOr(diff, BitXor(prev, order[p])))

\* static_cast<unsigned int>(diff): the identities of Ids are below 2^32
ToUnsignedInt(diff) == diff

\* LowLogSize that starts the search at the current log size: std::min(max_log_size, k)
LowLogSize_Current(k, n) == Min(max_log_size, k)

\* l1 = std::min(max_log_size, std::max(k, n))
LowLogSize(k, n) == Min(max_log_size, Max(k, n))

\* l2 = std::min(max_log_size, std::max(k, bit_offset_t(n+1)))
HighLogSize(k, n) == Min(max_log_size, Max(k, ToBitOffset(n + 1)))

\* get() takes the branch return update(vtbl); lines 509-538 of update run
GetUpdate(id) ==
  LET ce == cache[CacheIndex(id)]
  IN /\ Callable(id)
     /\ ce.vtbl # id
     /\ id \notin Keys
     /\ Rearranges(ce, TableSize, last_table_size, collisions_before_update)
     /\ \E diff \in {DiffLoop(order, 1, id, 0) : order \in IterationOrders(Keys)} :
          LET size == Cardinality(Keys \cup {id})
              k    == ToBitOffset(req_bits(cache_mask))
              n    == ToBitOffset(req_bits(size - 1))
              m    == ToBitOffset(req_bits(diff))
              z    == ToBitOffset(trailing_zeros(ToUnsignedInt(diff)))
              l1   == LowLogSize(k, n)
              l2   == HighLogSize(k, n)
          IN lp' = [vtbl |-> id, result |-> TableInsert(table, id)[id],
                    k |-> k, m |-> m, z |-> z, l1 |-> l1, l2 |-> l2,
                    i |-> l1, j |-> z, e_max |-> ZeroEntropy(size), no |-> l1, zo |-> z,
                    seen |-> {}]
     /\ table' = TableInsert(table, id)
     /\ mem' = MemInsert(mem, id)
     /\ last_table_size' = Cardinality(DOMAIN table')
     /\ collisions_before_update' = 4
     /\ tolerated' = [any |-> 0, counted |-> 0]
     /\ pc' = "search"
     /\ UNCHANGED <<cache_mask, cache, optimal_shift, refs, expect, calls, first_val, made_by, last, expected_size, build, heap>>

\* i <= l2
OuterTest(l) == l.i <= l.l2

\* InnerTest with the strict comparison j < m-i
InnerTest_Strict(l) == l.j < l.m - l.i

\* j <= m-i, in int
InnerTest(l) == l.j <= l.m - l.i

\* NoConflict off by one: t >= last_table_size - 1
NoConflict_OffByOne(t, size) == t + 1 >= size

\* t == last_table_size: the candidate has no conflicts
NoConflict(t, size) == t = size

\* NextShift without the increment
NextShift_Stuck(j) == j

\* ++j of the inner loop
NextShift(j) == ToBitOffset(j + 1)

\* one pass through the body of the inner loop, lines 544-563, and ++j
SearchStep ==
  /\ pc = "search"
  /\ OuterTest(lp)
  /\ InnerTest(lp)
  /\ \E st \in {get_stats_for(Keys, lp.i, lp.j)} :
       LET better == EntropyGreater(st.entropy, lp.e_max)
           cand   == [i |-> lp.i, j |-> lp.j, t |-> st.entries, e |-> st.entropy, c |-> st.conflict]
           l0     == [lp EXCEPT !.seen = @ \cup {cand}]
           l1     == IF better
                     THEN [l0 EXCEPT !.e_max = st.entropy, !.no = lp.i, !.zo = lp.j]
                     ELSE l0
       IN IF NoConflict(st.entries, last_table_size)
          THEN \* i = l2+1; collisions_before_update = 1; break; then ++i of the outer loop
               /\ lp' = [l1 EXCEPT !.i = ToBitOffset(ToBitOffset(lp.l2 + 1) + 1), !.j = lp.z]
               /\ collisions_before_update' = 1
          ELSE /\ lp' = [l1 EXCEPT !.j = NextShift(lp.j)]
               /\ UNCHANGED collisions_before_update
  /\ UNCHANGED <<cache_mask, cache, optimal_shift, table, mem, last_table_size,
                 pc, refs, expect, calls, first_val, made_by, last, expected_size, build, heap, tolerated>>

\* the inner loop has ended without break: ++i and j = z
OuterNext ==
  /\ pc = "search"
  /\ OuterTest(lp)
  /\ ~InnerTest(lp)
  /\ lp' = [lp EXCEPT !.i = ToBitOffset(lp.i + 1), !.j = lp.z]
  /\ UNCHANGED <<cache_mask, cache, optimal_shift, table, mem, last_table_size,
                 collisions_before_update, pc, refs, expect, calls, first_val, made_by, last, expected_size, build, heap, tolerated>>

\* RebuildLoop with ce.ptr = &table.begin()->second for every entry
RECURSIVE RebuildLoop_First(_, _, _, _, _, _)
RebuildLoop_First(c, t, order, p, shift, mask) ==
  IF p > Len(order) THEN c
  ELSE RebuildLoop_First([c EXCEPT ![SlotOf(order[p], shift, mask)] = [vtbl |-> order[p], ptr |-> t[order[1]]]],
                         t, order, p + 1, shift, mask)

\* for (p = table.begin(); p != table.end(); ++p) { ce = cache[slot of p->first]; ce.vtbl = ...; ce.ptr = &p->second; }
RECURSIVE RebuildLoop(_, _, _, _, _, _)
RebuildLoop(c, t, order, p, shift, mask) ==
  IF p > Len(order) THEN c
  ELSE RebuildLoop([c EXCEPT ![SlotOf(order[p], shift, mask)] = [vtbl |-> order[p], ptr |-> t[order[p]]]],
                   t, order, p + 1, shift, mask)

\* the log size of the cache after if (no > k) ... else no = k
InstalledLogSize(no, k) == IF no > k THEN no ELSE k

\* Rebuild that fits the cache to the table: the log size it installs is the number
\* of bits needed for table.size()-1, whatever the cache had before
Rebuild_Fitted ==
  /\ pc = "search"
  /\ ~OuterTest(lp)
  /\ LET no   == ToBitOffset(req_bits(TableSize - 1))
         mask == 2 ^ no - 1
     IN /\ cache_mask' = mask
        /\ optimal_shift' = lp.zo
        /\ cache' \in {RebuildLoop(EmptyCache(2 ^ no), table, order, 1, lp.zo, mask) :
                         order \in IterationOrders(Keys)}
  /\ mem' = HitsIncr(mem, lp.result)
  /\ Returned(lp.vtbl, "update", lp.result, TRUE, mem')
  /\ pc' = "idle"
  /\ lp' = NoLocals
  /\ UNCHANGED <<table, last_table_size, collisions_before_update, expect, expected_size,
                 build, heap, tolerated>>

\* the loops have ended: lines 567-592 of update, and get returns its result
Rebuild ==
  /\ pc = "search"
  /\ ~OuterTest(lp)
  /\ LET no   == InstalledLogSize(lp.no, lp.k)
         mask == IF lp.no > lp.k THEN 2 ^ no - 1 ELSE cache_mask
     IN /\ cache_mask' = mask
        /\ optimal_shift' = lp.zo
        /\ cache' \in {RebuildLoop(EmptyCache(2 ^ no), table, order, 1, lp.zo, mask) :
                         order \in IterationOrders(Keys)}
  /\ heap' = IF lp.no > lp.k
             THEN Allocated(Released(heap, cache_mask), 2 ^ InstalledLogSize(lp.no, lp.k) - 1)
             ELSE heap
  /\ mem' = HitsIncr(mem, lp.result)
  /\ Returned(lp.vtbl, "update", lp.result, TRUE, mem')
  /\ pc' = "idle"
  /\ lp' = NoLocals
  /\ UNCHANGED <<table, last_table_size, collisions_before_update, expect, expected_size, build, tolerated>>

(* ---- the destructor and the assertion ---- *)
\* ~vtblmap(), run between two calls of get
Destroy ==
  /\ pc = "idle"
  /\ heap' = Released(heap, cache_mask)
  /\ pc' = "destroyed"
  /\ UNCHANGED <<cache_mask, cache, optimal_shift, table, mem, last_table_size,
                 collisions_before_update, lp, refs, expect, calls, first_val, made_by, last,
                 expected_size, build, tolerated>>

\* !(x) of XTL_ASSERT(x)
AssertFails(x) == x = 0

\* GetAssert with XTL_ASSERT(vtbl) placed after the test of line 432
GetAssert_Late(id) ==
  /\ pc = "idle"
  /\ build.debug
  /\ AssertFails(id)
  /\ pc' = "exited"
  /\ collisions_before_update' =
       IF CountsCollision(cache[CacheIndex(id)], TableSize, last_table_size)
       THEN collisions_before_update - 1 ELSE collisions_before_update
  /\ UNCHANGED <<cache_mask, cache, optimal_shift, table, mem, last_table_size,
                 lp, refs, expect, calls, first_val, made_by, last,
                 expected_size, build, heap, tolerated>>

\* get of a null vtbl in a build with _DEBUG: XTL_ASSERT(vtbl) prints and calls std::exit(42)
GetAssert(id) ==
  /\ pc = "idle"
  /\ build.debug
  /\ AssertFails(id)
  /\ pc' = "exited"
  /\ UNCHANGED <<cache_mask, cache, optimal_shift, table, mem, last_table_size,
                 collisions_before_update, lp, refs, expect, calls, first_val, made_by, last,
                 expected_size, build, heap, tolerated>>

(* ---- the caller ---- *)
\* the values the caller has written so far
Written == {expect[id] : id \in Ids} \ {DefaultT}

\* the caller assigns v, a value it has not written before, through a reference r
\* that get(id) returned to it
Write(id, r, v) ==
  /\ pc = "idle"
  /\ r \in refs[id]
  /\ v # DefaultT
  /\ \A w \in Written : w < v
  /\ mem' = [mem EXCEPT ![r].value = v]
  /\ expect' = [expect EXCEPT ![id] = v]
  /\ last' = [id |-> id, path |-> "write"]
  /\ UNCHANGED <<cache_mask, cache, optimal_shift, table, last_table_size,
                 collisions_before_update, pc, lp, refs, calls, first_val, made_by, expected_size, build, heap, tolerated>>

\* get(id), whichever branch it takes
Get(id) == GetHit(id) \/ GetFound(id) \/ GetInsert(id) \/ GetUpdate(id)

\* the steps inside update
UpdateStep == SearchStep \/ OuterNext \/ Rebuild

\* the caller has issued fewer than MaxCalls calls of get so far
Budget == CallsOf(Ids) < MaxCalls

\* a caller that passes any identity of Ids, and writes through the references it got
Next ==
  \/ \E id \in Ids : Budget /\ GetHit(id)
  \/ \E id \in Ids : Budget /\ GetFound(id)
  \/ \E id \in Ids : Budget /\ GetInsert(id)
  \/ \E id \in Ids : Budget /\ GetUpdate(id)
  \/ SearchStep
  \/ OuterNext
  \/ Rebuild
  \/ \E id \in Ids, v \in Values : \E r \in refs[id] : Write(id, r, v)

Spec == Init /\ [][Next]_vars

\* the identities the caller has passed to get
Called == {id \in AllIds : calls[id] > 0}

\* the identities of a scenario
IdsOf(s) == {s[q] : q \in 1..Len(s)}

\* id is the next identity of a scenario the caller has followed so far
Scripted(id) ==
  \E s \in Scenarios : \E p \in 0..(Len(s) - 1) :
    /\ CallsOf(AllIds) = p
    /\ Called = {s[q] : q \in 1..p}
    /\ id = s[p + 1]

\* the scenario has ended and the caller passes one of its identities again
Repeated(id) ==
  \E s \in Scenarios :
    /\ Called = IdsOf(s)
    /\ id \in Called
    /\ CallsOf(AllIds) < Len(s) + MaxRepeats

ScenarioCall(id) == Scripted(id) \/ Repeated(id)

\* a caller that follows one of the scenarios
ScenarioInit == ConstructedWith(ScenarioSize)

ScenarioNext ==
  \/ \E id \in ScenarioIds : ScenarioCall(id) /\ GetHit(id)
  \/ \E id \in ScenarioIds : ScenarioCall(id) /\ GetFound(id)
  \/ \E id \in ScenarioIds : ScenarioCall(id) /\ GetInsert(id)
  \/ \E id \in ScenarioIds : ScenarioCall(id) /\ GetUpdate(id)
  \/ SearchStep
  \/ OuterNext
  \/ Rebuild

ScenarioSpec == ScenarioInit /\ [][ScenarioNext]_vars

\* the constructor of a debug build, called with a hint
LifeInit == \E b \in DebugBuilds : \E hint \in LifeSizes : ConstructedIn(b, hint)

\* the caller has issued fewer than MaxCalls calls of get so far
LifeBudget == CallsOf(LifeIds) < MaxCalls

\* a caller that passes any identity of LifeIds or a null vtbl, and destroys the map
\* between two calls
LifeNext ==
  \/ \E id \in LifeIds : LifeBudget /\ GetHit(id)
  \/ \E id \in LifeIds : LifeBudget /\ GetFound(id)
  \/ \E id \in LifeIds : LifeBudget /\ GetInsert(id)
  \/ \E id \in LifeIds : LifeBudget /\ GetUpdate(id)
  \/ SearchStep
  \/ OuterNext
  \/ Rebuild
  \/ GetAssert(0)
  \/ Destroy

LifeSpec == LifeInit /\ [][LifeNext]_vars

\* a call, once entered, runs to its return
LiveSpec == Spec /\ WF_vars(UpdateStep)

(* ---- properties ---- *)
\* the installed (cache_mask, optimal_shift) maps the identities of the table to distinct slots
ZeroCollision == \A a, b \in Keys : a # b => CacheIndex(a) # CacheIndex(b)

\* update, were it to run now on the identities of the table, would evaluate a
\* candidate (log_size, shift) without conflicts
Admits ==
  LET order == CHOOSE o \in IterationOrders(Keys) : TRUE
      diff  == DiffLoop(order, 2, order[1], 0)
      k     == ToBitOffset(req_bits(cache_mask))
      n     == ToBitOffset(req_bits(TableSize - 1))
      m     == ToBitOffset(req_bits(diff))
      z     == ToBitOffset(trailing_zeros(ToUnsignedInt(diff)))
  IN \E i \in LowLogSize(k, n)..HighLogSize(k, n) : \E j \in z..(m - i) :
       NoConflict(get_stats_for(Keys, i, j).entries, TableSize)

\* C1: every reference get(id) has returned, by whichever path, is the address of
\* the table entry of id, so any two calls get(id) return the same reference
C1_SameReference ==
  \A id \in Ids : calls[id] > 0 => (id \in Keys /\ refs[id] = {table[id]})

\* an entry made by update and an entry made by the plain insertion have each been
\* returned twice, the last time from the table after a miss in the cache
C1_Witness ==
  \E a, b \in Ids :
    /\ made_by[a] = "update" /\ calls[a] >= 2
    /\ made_by[b] = "insert" /\ calls[b] >= 2
    /\ last = [id |-> b, path |-> "found"]

\* C2: no reference returned for an identity was ever returned for another identity
C2_NoAlias == \A a, b \in Ids : a # b => refs[a] \cap refs[b] = {}

\* two identities of one cache slot have each been returned twice, evicting each other
C2_Witness ==
  \E a, b \in Ids :
    /\ a # b /\ CacheIndex(a) = CacheIndex(b)
    /\ calls[a] >= 2 /\ calls[b] >= 2
    /\ last = [id |-> a, path |-> "found"]
    /\ cache[CacheIndex(b)].vtbl = a

\* C3: the value read through the reference the first get(id) returned was T()
C3_FreshDefault == \A id \in Ids : calls[id] >= 1 => first_val[id] = DefaultT

\* a first get has just returned from the plain insertion, another entry was made
\* inside update, and a third entry holds a value that is not T()
C3_Witness ==
  \E a, b, c \in Ids :
    /\ made_by[a] = "update" /\ calls[a] >= 1
    /\ last = [id |-> b, path |-> "insert"] /\ calls[b] = 1
    /\ c # a /\ c # b /\ c \in Keys /\ mem[table[c]].value # DefaultT

\* C4: a step that is neither the return of get(id) nor a write through a reference
\* to id leaves the address of the entry of id and the value stored there unchanged
C4_ReferenceStable ==
  [][\A id \in Ids :
       (refs[id] # {} /\ calls'[id] = calls[id] /\ expect'[id] = expect[id])
         => /\ id \in DOMAIN table' /\ table'[id] = table[id]
            /\ \A r \in refs[id] : r \in DOMAIN mem' /\ mem'[r].value = mem[r].value]_vars

\* update has just grown the cache for a new identity while an older identity holds
\* a written value at the address returned for it
C4_Witness ==
  /\ last.path = "update"
  /\ cache_mask > InitialMask(expected_size)
  /\ \E id \in Keys : /\ id # last.id /\ refs[id] = {table[id]}
                      /\ expect[id] # DefaultT /\ mem[table[id]].value = expect[id]

\* C5: the value read through every reference returned for id is the value last
\* written through a reference to id (T() when nothing was written)
C5_WriteThenRead == \A id \in Ids : \A r \in refs[id] : mem[r].value = expect[id]

\* get(id) has returned again, after a rearrangement made for another identity,
\* while id holds a written value
C5_Witness ==
  \E id, b \in Ids :
    /\ last.id = id /\ last.path \in {"hit", "found"}
    /\ calls[id] >= 2
    /\ expect[id] # DefaultT
    /\ b # id /\ made_by[b] = "update"

\* C6: every step keeps every key of the table, with its entry, and adds at most one key
C6_TableGrows ==
  [][/\ \A k \in Keys : k \in DOMAIN table' /\ table'[k] = table[k]
     /\ Cardinality(DOMAIN table') \in {TableSize, TableSize + 1}]_vars

\* the table holds every identity, with entries made on both paths
C6_Witness ==
  /\ Keys = Ids
  /\ \E a, b \in Ids : made_by[a] = "update" /\ made_by[b] = "insert"

\* the iterations the loops of update can still make, as one number: the passes
\* of the outer loop up to i = l2+2, then the values of j up to 255
Remaining(l) == (l.l2 + 2 - l.i) * 256 + (255 - l.j)

\* C7: a call inside the search loops of update can always take a step, and every
\* step that stays inside the loops lowers Remaining, which is never negative: the
\* loops finish and the call returns
C7_Terminates ==
  /\ [](pc = "search" => ENABLED UpdateStep)
  /\ [][(pc = "search" /\ pc' = "search")
          => (Remaining(lp') < Remaining(lp) /\ Remaining(lp') >= 0)]_vars

\* the loops have been left early, by i = l2+1 and break, after two candidates or more
C7_Witness ==
  /\ pc = "search"
  /\ lp.i = lp.l2 + 2
  /\ Cardinality(lp.seen) >= 2

\* C8, as stated: once the table holds a set of identities for which update would
\* find a candidate without conflicts, the installed arrangement has no collisions
\* (gets of identities of the table never change the arrangement, see C9, so this
\* is what reaching such an arrangement amounts to for that set)
C8_Converges == (pc = "idle" /\ TableSize >= 2 /\ Admits) => ZeroCollision

\* C8, amended: after a rearrangement whose search found a candidate without
\* conflicts, and until the next identity is inserted, the installed arrangement
\* has no collisions
C8_FoundIsInstalled ==
  (pc = "idle" /\ last_table_size = TableSize /\ collisions_before_update = 1) => ZeroCollision

\* update has just returned having found a candidate without conflicts for three
\* identities or more
C8_Witness ==
  /\ pc = "idle" /\ last.path = "update"
  /\ last_table_size = TableSize /\ collisions_before_update = 1
  /\ TableSize >= 3

\* C9: a get of an identity of the table returns without entering update and leaves
\* collisions_before_update (positive), last_table_size, the table, optimal_shift
\* and cache_mask as they were; this holds in every state, and so after a
\* rearrangement that found an arrangement without collisions
C9_NoRearrangement ==
  [][(pc = "idle" /\ \E id \in Keys : calls'[id] # calls[id])
       => /\ pc' = "idle"
          /\ collisions_before_update' = collisions_before_update
          /\ collisions_before_update' > 0
          /\ last_table_size' = last_table_size
          /\ table' = table
          /\ optimal_shift' = optimal_shift
          /\ cache_mask' = cache_mask]_vars

\* after a rearrangement that found an arrangement without collisions, a get of an
\* identity of the table has returned
C9_Witness ==
  /\ pc = "idle"
  /\ last_table_size = TableSize /\ collisions_before_update = 1 /\ TableSize >= 2
  /\ ZeroCollision
  /\ \E id \in Keys : last = [id |-> id, path |-> "hit"] /\ calls[id] >= 2

\* C10: when update leaves its loops, no candidate it evaluated has an entropy
\* greater than that of the (log_size, shift) it installs
C10_MaxEntropy ==
  [][(pc = "search" /\ pc' = "idle")
       => \A c \in lp.seen :
            ~EntropyGreater(c.e, get_stats_for(DOMAIN table', req_bits(cache_mask'),
                                               optimal_shift').entropy)]_vars

\* update is about to install an arrangement after evaluating candidates of
\* different entropies
C10_Witness ==
  /\ pc = "search" /\ ~OuterTest(lp)
  /\ \E c1, c2 \in lp.seen : c1.e # c2.e

\* the candidates of greatest entropy among those the running update has evaluated
MaxEntropySeen(l) == {c \in l.seen : \A d \in l.seen : ~EntropyGreater(d.e, c.e)}

\* C11, as stated: when update leaves its loops having evaluated several candidates
\* of equal, greatest entropy, the shift it installs is the largest shift among them
C11_LargerShiftOnTie ==
  [][(pc = "search" /\ pc' = "idle" /\ Cardinality(MaxEntropySeen(lp)) >= 2)
       => \A c \in MaxEntropySeen(lp) : c.j <= optimal_shift']_vars

\* the statistics of the arrangement l installs when update leaves its loops
InstalledStats(l) == get_stats_for(Keys, InstalledLogSize(l.no, l.k), l.zo)

\* C12, as stated: when update leaves its loops, no candidate it evaluated has more
\* occupied buckets (fewer colliding identities) than the arrangement it installs
C12_MinimalCollisions ==
  [][(pc = "search" /\ pc' = "idle")
       => \A c \in lp.seen : c.t <= InstalledStats(lp).entries]_vars

\* C12, amended: when update leaves its loops, the arrangement it installs has no
\* colliding identities if some candidate it evaluated has none, and no candidate
\* it evaluated has a greater entropy than the installed arrangement
C12_CollisionFreeIfAny ==
  [][(pc = "search" /\ pc' = "idle")
       => \E st \in {get_stats_for(DOMAIN table', req_bits(cache_mask'), optimal_shift')} :
            /\ (\E c \in lp.seen : c.t = TableSize) => st.entries = TableSize
            /\ \A c \in lp.seen : ~EntropyGreater(c.e, st.entropy)]_vars

\* update is about to install an arrangement, having evaluated a candidate with
\* colliding identities and then one without
C12_Witness ==
  /\ pc = "search" /\ ~OuterTest(lp)
  /\ \E c1, c2 \in lp.seen : c1.t < TableSize /\ c2.t = TableSize
  /\ TableSize >= 3

\* the example of the spec: a map constructed with log_size 3 for which get has been
\* called with 0x1000, 0x1010 and 0x1020 and with no other identity
ExampleIds == {4096, 4112, 4128}
ExampleDone == expected_size = 2 ^ min_log_size /\ pc = "idle" /\ Called = ExampleIds

\* where the example leaves the cache and what its calls returned: shift 4, the
\* identities in the slots 0, 1 and 2, three distinct references, each the entry
\* of its identity in the table and in the slot of its identity
ExampleOutcome ==
  /\ optimal_shift = 4 /\ cache_mask = 2 ^ min_log_size - 1
  /\ cache[0].vtbl = 4096 /\ cache[1].vtbl = 4112 /\ cache[2].vtbl = 4128
  /\ ZeroCollision
  /\ \A a \in ExampleIds : \E r \in DOMAIN mem : refs[a] = {r}
  /\ \A a, b \in ExampleIds : a # b => refs[a] \cap refs[b] = {}
  /\ \A a \in ExampleIds : a \in Keys /\ refs[a] = {table[a]}
  /\ refs[4096] = {cache[0].ptr} /\ refs[4112] = {cache[1].ptr} /\ refs[4128] = {cache[2].ptr}

C14_LogSizeInRange ==
  \E log_size \in min_log_size..max_log_size :
    /\ cache_mask = 2 ^ log_size - 1
    /\ DOMAIN cache = 0..(2 ^ log_size - 1)

\* C15, as stated, with the counter's reset value as the fixed bound: fewer than 4
\* gets have found their slot held by another identity since update was last entered
C15_BoundedCollisions == tolerated.any < 4

\* C15, amended: between calls collisions_before_update is at least 1, and the
\* collisions that lowered it since update was last entered, plus what is left of
\* it, are at most 4: update is entered by the 4th counted collision at the latest
C15_CountedBounded ==
  pc = "idle" => /\ collisions_before_update >= 1
                 /\ tolerated.counted + collisions_before_update <= 4

\* after a rearrangement a collision has been counted and tolerated, and another
\* one was tolerated without being counted
C15_Witness ==
  /\ pc = "idle"
  /\ tolerated.counted >= 1 /\ tolerated.any > tolerated.counted
  /\ \E a \in Ids : made_by[a] = "update"

\* the heap arrays that new cache_entry[] has returned so far
HeapArrays == 1..heap.news
\* the operands delete[] has been given so far
Deleted == {heap.deleted[q] : q \in 1..Len(heap.deleted)}

CoreState == <<table, cache, optimal_shift, cache_mask, last_table_size, collisions_before_update>>

\* C17: in a build where XTL_ASSERT is active, get of the identity 0 ends in the
\* error exit of the assertion, and table, cache slots, optimal_shift, cache_mask,
\* last_table_size and collisions_before_update are what they were at the call
C17_AssertKeepsState ==
  [][/\ (pc' = "exited" /\ pc # "exited") => (build.debug /\ pc = "idle" /\ UNCHANGED CoreState)
     /\ (pc = "idle" /\ build.debug) => ENABLED GetAssert(0)]_vars

\* get(0) has stopped at the assertion in a map that update has rearranged and whose
\* counter a collision has lowered since
C17_Witness ==
  /\ pc = "exited"
  /\ build.debug
  /\ last.path = "insert"
  /\ last_table_size > 0
  /\ collisions_before_update \in 1..3
  /\ cache[CacheIndex(0)].vtbl # 0

\* C18: between two calls of get every cache slot is empty (identity 0) or holds an
\* identity that is a key of the table, that the current optimal_shift and cache_mask
\* map to this slot, and whose pointer is the address of its table entry
C18_SlotsCoherent ==
  pc = "idle" =>
    \A i \in DOMAIN cache :
      \/ cache[i].vtbl = 0
      \/ /\ cache[i].vtbl \in Keys
         /\ SlotOf(cache[i].vtbl, optimal_shift, cache_mask) = i
         /\ cache[i].ptr = table[cache[i].vtbl]

\* update has rearranged the cache, a later get has overwritten a slot held by another
\* identity, and the cache has an empty slot and two used ones
C18_Witness ==
  /\ pc = "idle"
  /\ last_table_size > 0
  /\ last.path = "found"
  /\ tolerated.any > 0
  /\ \E i \in DOMAIN cache : cache[i].vtbl = 0
  /\ Cardinality({i \in DOMAIN cache : cache[i].vtbl # 0}) >= 2

\* this step is the entry of get(id): it returns at once, or it goes into update
GetStepOf(id) ==
  /\ pc = "idle"
  /\ \/ calls'[id] = calls[id] + 1
     \/ pc' = "search" /\ lp'.vtbl = id

\* at the call of get(id): the slot of id holds another identity, id is not in the
\* table, the slot's identity is not zero, and table.size() != last_table_size
CollisionAtCall(id) ==
  /\ cache[SlotOf(id, optimal_shift, cache_mask)].vtbl # id
  /\ id \notin DOMAIN table
  /\ cache[SlotOf(id, optimal_shift, cache_mask)].vtbl # 0
  /\ Cardinality(DOMAIN table) # last_table_size

\* C19: get(id) goes into update if and only if the four conditions of a counted
\* collision hold at the call and the decrement of collisions_before_update yields 0;
\* a get that does not go into update leaves the counter lowered by one if the four
\* conditions hold and unchanged otherwise
C19_UpdateIffCounted ==
  [][\A id \in AllIds :
       GetStepOf(id) =>
         /\ (pc' = "search") <=> (CollisionAtCall(id) /\ collisions_before_update - 1 = 0)
         /\ pc' # "search" =>
              collisions_before_update' =
                IF CollisionAtCall(id) THEN collisions_before_update - 1
                ELSE collisions_before_update]_vars

\* get has just gone into update with the fourth identity of the table, and the get
\* before it inserted an identity without going into update
C19_Witness ==
  /\ pc = "search"
  /\ lp.seen = {}
  /\ TableSize = 4
  /\ last.path = "insert"

\* C20: a get(id) that finds id in the slot (id >> optimal_shift) & cache_mask returns
\* the reference stored in the slot and leaves table, every cache slot, optimal_shift,
\* cache_mask, last_table_size and collisions_before_update unchanged
C20_HitChangesNothing ==
  [][\A id \in AllIds :
       (GetStepOf(id) /\ cache[SlotOf(id, optimal_shift, cache_mask)].vtbl = id) =>
         /\ pc' = "idle"
         /\ refs'[id] = refs[id] \cup {cache[SlotOf(id, optimal_shift, cache_mask)].ptr}
         /\ UNCHANGED CoreState]_vars

\* a hit has returned in a map that update has rearranged and that has grown since
C20_Witness ==
  /\ pc = "idle"
  /\ last.path = "hit"
  /\ calls[last.id] >= 2
  /\ last_table_size > 0
  /\ TableSize > last_table_size

\* C21: a get(id) that does not find id in its slot but finds it in the table returns
\* without going into update, writes id and the address of its table entry into the
\* slot of id and changes no other slot, nor table, optimal_shift, cache_mask,
\* last_table_size or collisions_before_update, whatever the slot held
C21_FoundOverwritesSlot ==
  [][\A id \in AllIds :
       (/\ GetStepOf(id)
        /\ cache[SlotOf(id, optimal_shift, cache_mask)].vtbl # id
        /\ id \in DOMAIN table) =>
         /\ pc' = "idle"
         /\ cache' = [cache EXCEPT ![SlotOf(id, optimal_shift, cache_mask)] =
                                      [vtbl |-> id, ptr |-> table[id]]]
         /\ UNCHANGED <<table, optimal_shift, cache_mask, last_table_size,
                        collisions_before_update>>]_vars

\* three gets or more since the last update found their slot held by another identity,
\* none of them lowered the counter, the last one found its identity in the table, and
\* the table has grown since the last update
C21_Witness ==
  /\ pc = "idle"
  /\ last.path = "found"
  /\ tolerated.any >= 3
  /\ tolerated.counted = 0
  /\ last_table_size > 0
  /\ TableSize > last_table_size

\* C22: a get(id) of an identity that is not in the table returns without going into
\* update exactly when its slot is empty, or table.size() = last_table_size, or the
\* counter is not zero after its decrement; it then adds one entry for id with the
\* value T() to the table and keeps the other entries, writes id and the address of
\* the new entry into the slot of id, and changes no other slot, nor optimal_shift,
\* cache_mask or last_table_size
C22_InsertAddsOneEntry ==
  [][\A id \in AllIds :
       (GetStepOf(id) /\ id \notin DOMAIN table) =>
         /\ (pc' = "idle") <=>
              \/ cache[SlotOf(id, optimal_shift, cache_mask)].vtbl = 0
              \/ Cardinality(DOMAIN table) = last_table_size
              \/ collisions_before_update - 1 # 0
         /\ pc' = "idle" =>
              /\ DOMAIN table' = DOMAIN table \cup {id}
              /\ \A v \in DOMAIN table : table'[v] = table[v] /\ table'[id] # table[v]
              /\ mem'[table'[id]].value = DefaultT
              /\ \A a \in DOMAIN mem : a \in DOMAIN mem' /\ mem'[a].value = mem[a].value
              /\ cache' = [cache EXCEPT ![SlotOf(id, optimal_shift, cache_mask)] =
                                           [vtbl |-> id, ptr |-> table'[id]]]
              /\ UNCHANGED <<optimal_shift, cache_mask, last_table_size>>]_vars

\* a get has inserted its identity after a collision that lowered the counter and
\* left it above zero
C22_Witness ==
  /\ pc = "idle"
  /\ last.path = "insert"
  /\ tolerated.counted >= 1
  /\ collisions_before_update \in 1..3
  /\ made_by[last.id] = "insert"

\* the slots of the cache that hold an identity
UsedSlots == {i \in DOMAIN cache : cache[i].vtbl # 0}

\* C23: when update(vtbl) returns, vtbl is a key of the table, last_table_size is
\* table.size(), the cache has cache_mask + 1 slots, a slot holds an identity if and
\* only if some key of the table is mapped to it by the installed optimal_shift and
\* cache_mask, and a slot that holds an identity holds such a key and the address of
\* its table entry
C23_CacheRebuilt ==
  [][(pc = "search" /\ pc' = "idle") =>
       /\ lp.vtbl \in DOMAIN table'
       /\ last_table_size' = Cardinality(DOMAIN table')
       /\ DOMAIN cache' = 0..cache_mask'
       /\ \A i \in DOMAIN cache' :
            /\ cache'[i].vtbl # 0 <=>
                 \E v \in DOMAIN table' : SlotOf(v, optimal_shift', cache_mask') = i
            /\ cache'[i].vtbl # 0 =>
                 /\ cache'[i].vtbl \in DOMAIN table'
                 /\ SlotOf(cache'[i].vtbl, optimal_shift', cache_mask') = i
                 /\ cache'[i].ptr = table'[cache'[i].vtbl]]_vars

\* update has returned with a larger cache in which two identities of the table share
\* a slot and another slot is empty
C23_Witness ==
  /\ pc = "idle"
  /\ last.path = "update"
  /\ cache_mask > InitialMask(expected_size)
  /\ Cardinality(UsedSlots) < TableSize
  /\ Cardinality(UsedSlots) >= 2
  /\ UsedSlots # DOMAIN cache

\* the keys of the table are mapped to distinct slots by optimal_shift and cache_mask
CollisionFree ==
  \A u, v \in DOMAIN table :
    u # v => SlotOf(u, optimal_shift, cache_mask) # SlotOf(v, optimal_shift, cache_mask)

\* C24: when update has returned, collisions_before_update is 1 if the installed
\* optimal_shift and cache_mask map the keys of the table to distinct slots, and 4
\* otherwise
C24_CounterAfterUpdate ==
  (pc = "idle" /\ last.path = "update") =>
    collisions_before_update = IF CollisionFree THEN 1 ELSE 4

\* the pairs (i, j) of the two loops of the running update: i from l1 to l2 and,
\* for each i, j from z to m - i
SearchRange(l) == {c \in [i : l.l1..l.l2, j : l.z..l.m] : c.j <= l.m - c.i}

\* the pair c comes before the pair d in the order of the loops, or is d
ScannedBefore(c, d) == c.i < d.i \/ (c.i = d.i /\ c.j <= d.j)

\* the pairs of the search range whose number of used buckets is the size of the table
ConflictFree(l) ==
  {c \in SearchRange(l) : get_stats_for(Keys, c.i, c.j).entries = TableSize}

\* the pairs update has evaluated so far
Evaluated(l) == {[i |-> c.i, j |-> c.j] : c \in l.seen}

\* C25: when update returns and its search range holds a pair (log_size, shift) with
\* as many used buckets as the table has identities, update has evaluated the pairs
\* up to the first such pair in the order of the loops and no pair after it, and it
\* installs that pair
C25_StopsAtFirstConflictFree ==
  [][(pc = "search" /\ pc' = "idle") =>
       \E free \in {ConflictFree(lp)} :
         free # {} =>
           \E first \in free :
             /\ \A c \in free : ScannedBefore(first, c)
             /\ Evaluated(lp) = {c \in SearchRange(lp) : ScannedBefore(c, first)}
             /\ cache_mask' = 2 ^ first.i - 1
             /\ optimal_shift' = first.j]_vars

\* the search of update has ended on a conflict-free pair that was the third pair it
\* evaluated or a later one, with a pair of the range left unevaluated
C25_Witness ==
  /\ pc = "search"
  /\ ~OuterTest(lp)
  /\ \E c \in lp.seen : c.t = TableSize
  /\ Cardinality(lp.seen) >= 3
  /\ Evaluated(lp) # SearchRange(lp)

\* the number of bits of the largest identity a call site can see
IdBits == req_bits(CHOOSE v \in AllIds : \A u \in AllIds : u <= v)
\* bit b of the identity v
BitOf(v, b) == (v \div 2 ^ b) % 2
\* the bits in which two identities of the table differ
DifferingBits == {b \in 0..IdBits : \E u, v \in Keys : BitOf(u, b) # BitOf(v, b)}

\* the bounds of the search as the rules state them, from the table that holds the new
\* identity and the cache_mask at the call: k, n, z, m, and the two log sizes
RangeBounds ==
  LET k == req_bits(cache_mask)
      n == req_bits(TableSize - 1)
      d == DifferingBits
  IN [k  |-> k,
      z  |-> CHOOSE b \in d : \A c \in d : b <= c,
      m  |-> 1 + CHOOSE b \in d : \A c \in d : c <= b,
      l1 |-> Min(max_log_size, Max(k, n)),
      l2 |-> Min(max_log_size, Max(k, n + 1))]

\* the pair (log_size, shift) that the step installs
Installed == [i |-> req_bits(cache_mask'), j |-> optimal_shift']

C27_CounterInRange ==
  pc = "idle" => collisions_before_update \in 1..4

\* the counter rests at 3: update has left it at 4 and one collision has been counted
\* since, after which the caller has called get again
C27_Witness ==
  /\ pc = "idle"
  /\ collisions_before_update = 3
  /\ tolerated.counted = 1
  /\ last.path \in {"hit", "found"}

\* C28: last_table_size is never greater than table.size(), it changes only in the
\* step in which get goes into update, and at that step the assertion at the entry
\* of update, last_table_size < table.size(), holds
C28_LastTableSize ==
  [][/\ last_table_size <= Cardinality(DOMAIN table)
     /\ last_table_size' <= Cardinality(DOMAIN table')
     /\ last_table_size' # last_table_size => (pc = "idle" /\ pc' = "search")
     /\ (pc = "idle" /\ pc' = "search") => last_table_size < Cardinality(DOMAIN table)]_vars

\* get has just gone into update for the second time, with the fourth identity of the
\* table
C28_Witness ==
  /\ pc = "search"
  /\ lp.seen = {}
  /\ last_table_size = 4
  /\ \E id \in Keys : made_by[id] = "update" /\ id # lp.vtbl

\* the slots that the keys of the table take in a cache of 2^i slots at the shift j
BucketsOf(i, j) == {SlotOf(v, j, 2 ^ i - 1) : v \in Keys}

\* C29: for every pair update evaluates, t is the number of buckets the keys take, the
\* two assertions of the loop hold (t == last_table_size implies e >= e_max, with e_max
\* the greatest entropy seen before; c > 0.0 implies t < last_table_size), and the
\* conflict is 0 exactly when every key has a bucket of its own
C29_LoopAssertions ==
  [][pc = "search" =>
       \A c \in lp'.seen \ lp.seen :
         /\ c.t = Cardinality(BucketsOf(c.i, c.j))
         /\ c.t = last_table_size => ~EntropyGreater(lp.e_max, c.e)
         /\ ConflictPositive(c.c) => c.t < last_table_size
         /\ c.c = 0 <=> Cardinality(BucketsOf(c.i, c.j)) = TableSize]_vars

\* update has evaluated a pair with a positive conflict and then, with an entropy
\* above 0.0 in e_max, a conflict-free pair
C29_Witness ==
  /\ pc = "search"
  /\ ~OuterTest(lp)
  /\ \E c \in lp.seen : c.t = TableSize /\ c.c = 0
  /\ \E d \in lp.seen : d.c > 0 /\ EntropyGreater(d.e, ZeroEntropy(TableSize))

\* C30: cache_mask never decreases, and cache_mask and optimal_shift change only in
\* the step that ends update
C30_CapacityNeverShrinks ==
  [][/\ cache_mask' >= cache_mask
     /\ (cache_mask' # cache_mask \/ optimal_shift' # optimal_shift)
          => (pc = "search" /\ pc' = "idle")]_vars

\* update has enlarged the cache and changed the shift, and a get that inserted an
\* identity has returned since
C30_Witness ==
  /\ pc = "idle"
  /\ last.path # "update"
  /\ cache_mask > InitialMask(expected_size)
  /\ optimal_shift # VTBL_IRRELEVANT_BITS
  /\ TableSize > last_table_size

\* C31: when update returns, the cache has at least as many slots as the table has
\* entries, for a table of 2^max_log_size entries at most
C31_CacheHoldsTable ==
  [][(pc = "search" /\ pc' = "idle" /\ Cardinality(DOMAIN table') <= 2 ^ max_log_size)
       => cache_mask' + 1 >= Cardinality(DOMAIN table')]_vars

\* update has returned with a table that has more entries than the cache had slots
\* when update was entered
C31_Witness ==
  /\ pc = "idle"
  /\ last.path = "update"
  /\ TableSize > InitialMask(expected_size) + 1
  /\ Cardinality({id \in Keys : made_by[id] = "update"}) = 1

\* the number of times update has been entered (++updates of line 524)
Updates ==
  Cardinality({id \in Keys : made_by[id] = "update"}) + (IF pc = "search" THEN 1 ELSE 0)

\* C32: a get that adds an identity while no identity has been added since the last
\* update does not go into update, and twice the number of updates is never more than
\* the number of entries of the table
C32_NoTwoUpdatesInRow ==
  [][/\ 2 * Updates <= TableSize
     /\ 2 * Updates' <= TableSize'
     /\ \A id \in AllIds :
          (/\ GetStepOf(id)
           /\ id \notin DOMAIN table
           /\ last_table_size > 0
           /\ Cardinality(DOMAIN table) = last_table_size) => pc' = "idle"]_vars

\* update has returned for the second time in a table of four identities: the first,
\* one added by update, one added by the plain insertion, one added by update
C32_Witness ==
  /\ pc = "idle"
  /\ Updates = 2
  /\ TableSize = 4
  /\ last.path = "update"

\* the identities that have been passed to get so far: those of the calls that have
\* returned and the one of the call that is inside update
Requested == Called \cup (IF pc = "search" THEN {lp.vtbl} ELSE {})

\* C33: the keys of the table are the identities that have been passed to get so far,
\* 0 is not a key, and a slot has the identity 0 exactly when it has no pointer
C33_KeysAreRequested ==
  /\ Keys = Requested
  /\ TableSize = Cardinality(Requested)
  /\ 0 \notin Keys
  /\ \A i \in DOMAIN cache : cache[i].vtbl = 0 <=> cache[i].ptr = NULL

\* three identities have been requested in MaxCalls calls, one of them three times or
\* more and one of them added by update
C33_Witness ==
  /\ pc = "idle"
  /\ TableSize = 3
  /\ CallsOf(Ids) = MaxCalls
  /\ \E id \in Keys : made_by[id] = "update"
  /\ \E id \in Keys : calls[id] >= 3

\* histogram[(p->first >> offset) & cache_mask]++ for the keys in the order of the
\* iteration, with bucket[v] the index (v >> offset) & cache_mask of the key v
RECURSIVE HistogramOver(_, _, _, _)
HistogramOver(h, order, p, bucket) ==
  IF p > Len(order) THEN h
  ELSE HistogramOver([h EXCEPT ![bucket[order[p]]] = @ + 1], order, p + 1, bucket)

\* the keys of the table that the installed shift and mask map to the slot i
SharingSlot(i) == {v \in DOMAIN table' : SlotOf(v, optimal_shift', cache_mask') = i}

\* C34: whatever the order in which the table is iterated, the loop over the table at
\* the entry of update gives the same m and z, get_stats_for gives the same histogram
\* for the pair it evaluates, and the loop that fills the cache leaves a slot that no
\* key is mapped to empty and gives a slot that one key is mapped to that key and its
\* entry, so only the slots that two keys or more share are open; the steps of the
\* search take nothing else from the iteration, so (log_size, shift) and the counter
\* do not depend on it
C34_OrderIndependent ==
  [][/\ (pc = "idle" /\ pc' = "search") =>
          \A order \in IterationOrders(Keys) :
            \E diff \in {DiffLoop(order, 1, lp'.vtbl, 0)} :
              /\ lp'.m = ToBitOffset(req_bits(diff))
              /\ lp'.z = ToBitOffset(trailing_zeros(ToUnsignedInt(diff)))
     /\ (pc = "search" /\ lp'.seen # lp.seen) =>
          \E h \in {Histogram(Keys, lp.i, lp.j)} :
            \E zeroed \in {[s \in 0..(2 ^ lp.i - 1) |-> 0]} :
              \* (EXCEPT has TLC compute the indices once, not at every use)
              \E bucket \in {[[v \in Keys |-> SlotOf(v, lp.j, 2 ^ lp.i - 1)]
                                EXCEPT ![lp.vtbl] = @]} :
                \A order \in IterationOrders(Keys) :
                  HistogramOver(zeroed, order, 1, bucket) = h
     /\ (pc = "search" /\ pc' = "idle") =>
          \A i \in DOMAIN cache' :
            \E on \in {SharingSlot(i)} :
              /\ on = {} => cache'[i] = EmptyEntry
              /\ \A v \in on : on = {v} => cache'[i] = [vtbl |-> v, ptr |-> table'[v]]]_vars

\* update has returned from a table of four identities, two of which share a slot
\* that holds the greater of them
C34_Witness ==
  /\ pc = "idle"
  /\ last.path = "update"
  /\ TableSize = 4
  /\ \E u, v \in Keys :
       /\ u < v
       /\ CacheIndex(u) = CacheIndex(v)
       /\ cache[CacheIndex(u)].vtbl = v

\* C35: as long as update has not run since the construction, the counter is 1, and
\* a get goes into update if and only if its identity is not in the table and its
\* slot holds another identity: the first such get invokes update and no get before
\* it does
C35_FirstCollisionUpdates ==
  [][\A id \in AllIds :
       (GetStepOf(id) /\ last_table_size = 0) =>
         /\ collisions_before_update = 1
         /\ (pc' = "search") <=>
              /\ id \notin DOMAIN table
              /\ cache[SlotOf(id, optimal_shift, cache_mask)].vtbl \notin {0, id}]_vars

\* get has gone into update for the first time, with the third identity of the table,
\* after two insertions into empty slots and a hit
C35_Witness ==
  /\ pc = "search"
  /\ lp.seen = {}
  /\ TableSize = 3
  /\ \A id \in Keys : made_by[id] # "update"
  /\ last.path = "hit"

\* the hits counter stored with the identity id in the table t and the memory m, 0
\* while id has no entry
HitsOf(t, m, id) == IF id \in DOMAIN t THEN m[t[id]].hits ELSE 0

\* C36 as stated: the hits counter of an identity is incremented exactly on the calls
\* get(id) that find id in its slot
C36_HitsCountCacheHits ==
  [][\A id \in AllIds :
       calls'[id] = calls[id] + 1 =>
         (HitsOf(table', mem', id) = HitsOf(table, mem, id) + 1 <=> last'.path = "hit")]_vars

\* C36: the hits counter of an identity is the number of calls get(id) that have
\* returned, whichever path they took, and a call that returns increments it by one
C36_HitsCountCalls ==
  [][/\ \A id \in AllIds : HitsOf(table', mem', id) = calls'[id]
     /\ \A id \in AllIds :
          calls'[id] = calls[id] + 1 => HitsOf(table', mem', id) = HitsOf(table, mem, id) + 1]_vars

\* an identity that update added has been requested again twice, once found in the
\* table and once found in its slot, and its counter is 3
C36_Witness ==
  /\ pc = "idle"
  /\ last.path = "hit"
  /\ made_by[last.id] = "update"
  /\ calls[last.id] = 3
  /\ HitsOf(table, mem, last.id) = 3
  /\ tolerated.any >= 1
====
